---- MODULE Spec2Model ----
(***************************************************************************)
(* Model of src/sensor_monitoring.ino: an ESP32 sketch that, every         *)
(* intervaloLeitura milliseconds, reads a DHT22 (temperature, humidity),   *)
(* an LDR (light) and an MPU6050 (acceleration, angular rate), prints one  *)
(* CSV record and one human-readable block, and prints threshold alerts.   *)
(*                                                                         *)
(* Representation.                                                         *)
(*  - Time is counted in ticks of 4 ms, so that the wrap of the 32-bit     *)
(*    millis() counter (2^32 ms) is 2^30 ticks and every clock value is    *)
(*    representable; every duration of the model is a multiple of 4 ms.    *)
(*  - A float is a record [nan, v]: v is the value in tenths (the DHT22    *)
(*    resolution), nan says that the value is NaN.                         *)
(*  - A motion reading (float, in g or deg/s) is an integer in units of    *)
(*    1/10000, so that reading * 1000 has one digit below the unit and     *)
(*    the float-to-integer truncation is visible.                          *)
(*  - A line of serial output is a record [kind, f]: kind is the fixed     *)
(*    text of the line, f the values printed in it.                        *)
(***************************************************************************)
EXTENDS Integers, Sequences, FiniteSets, TLC

VARIABLES
  pc,             \* "setup": before setup(); "loop": between two loop() calls
  build,          \* what this build does where the C++ is undefined
  mpuOk,          \* result of mpu.begin() in setup()
  clock,          \* millis(), in ticks, modulo 2^30 ticks (= 2^32 ms)
  uptime,         \* true time since boot, in ticks (never wraps)
  ultimaLeitura,  \* in ticks
  temperatura, umidade, luminosidade,   \* floats
  ax, ay, az, gx, gy, gz,               \* int16_t
  serial,         \* lines written by the latest setup()/loop() call
  fired,          \* the latest loop() call ran a cycle
  reads,          \* what the sensors returned in the latest cycle
  hist            \* observation of the fires so far (see NoHist)

vars == <<pc, build, mpuOk, clock, uptime, ultimaLeitura, temperatura, umidade,
          luminosidade, ax, ay, az, gx, gy, gz, serial, fired, reads, hist>>

(***************************************************************************)
(* Program constants                                                       *)
(***************************************************************************)
intervaloLeitura == 2000
pausa == 100
MsPorSegundo == 1000
LimiteTemperatura == 350
LimiteUmidade == 800
LimiteLuminosidade == 100
LimiteVibracao == 2000
LDR_IN_MAX == 4095
LDR_OUT_MAX == 100
INT16_MIN == -32768
INT16_MAX == 32767
INT32_MAX == 2147483647

(***************************************************************************)
(* Bounds of the exploration                                               *)
(***************************************************************************)
HorizonPausas == 27

Ticks(ms) == ms \div 4
Wrap == 2^30

\* C++ integer division truncates toward zero.
CDiv(a, b) == IF a >= 0 THEN a \div b ELSE -((-a) \div b)

\* unsigned long subtraction
Sub32(a, b) == (a - b) % Wrap

(***************************************************************************)
(* Floats                                                                  *)
(***************************************************************************)
F(v) == [nan |-> FALSE, v |-> v]
NaN == [nan |-> TRUE, v |-> 0]
isnan(x) == x.nan
\* x > t and x < t for a threshold t in tenths; false when x is NaN
GT(x, t) == ~x.nan /\ x.v > t
LT(x, t) == ~x.nan /\ x.v < t
\* int -> float
IntToFloat(i) == F(10 * i)

\* Serial.print(x, 2) and printf("%.2f", x): sign, integer part, two decimals
Print2(x) ==
  IF x.nan THEN [neg |-> FALSE, int |-> -1, frac |-> -1]
  ELSE LET m == IF x.v < 0 THEN -x.v ELSE x.v
       IN [neg |-> x.v < 0, int |-> m \div 10, frac |-> (m % 10) * 10]

(***************************************************************************)
(* Narrowing float -> int16_t.  Out of the range of int16_t the conversion *)
(* is undefined: the build either keeps the low 16 bits or saturates.      *)
(***************************************************************************)
Builds == [conv : {"wrap", "sat"}, ovf : {"wrap", "wide"}]

Wrap16(v) == ((v - INT16_MIN) % 65536) + INT16_MIN
Sat16(v) == IF v > INT16_MAX THEN INT16_MAX ELSE IF v < INT16_MIN THEN INT16_MIN ELSE v

\* r: reading in 1/10000; r * 1000 is r / 10, truncated toward zero
FloatVezes1000ParaInt16(r, b) ==
  LET v == CDiv(r, 10)
  IN IF INT16_MIN <= v /\ v <= INT16_MAX THEN v
     ELSE IF b.conv = "wrap" THEN Wrap16(v) ELSE Sat16(v)

\* Mutant of map: rounds to the nearest instead of truncating
map_Arredonda(x, in_min, in_max, out_min, out_max) ==
  CDiv((x - in_min) * (out_max - out_min) + CDiv(in_max - in_min, 2), in_max - in_min) + out_min

\* long map(long x, long in_min, long in_max, long out_min, long out_max)
map(x, in_min, in_max, out_min, out_max) ==
  CDiv((x - in_min) * (out_max - out_min), in_max - in_min) + out_min

(***************************************************************************)
(* int + int: [ovf, val], val the sum modulo 2^32 as a signed value.       *)
(***************************************************************************)
Add32(a, b) ==
  IF a >= 0 /\ b >= 0 /\ a > INT32_MAX - b
  THEN [ovf |-> TRUE, val |-> ((a - INT32_MAX) - 1) + ((b - INT32_MAX) - 1)]
  ELSE [ovf |-> FALSE, val |-> a + b]

\* ax*ax + ay*ay + az*az in int
SomaQuadrados(x, y, z) ==
  LET s1 == Add32(x * x, y * y)
      s2 == Add32(s1.val, z * z)
  IN [ovf |-> s1.ovf \/ s2.ovf, val |-> s2.val]

\* float vibracao = sqrt(s); vibracao > t.  sqrt of a negative number is NaN,
\* and for 0 <= s the rounding of sqrt(s) to float keeps the order around t.
SqrtGT(s, t) == s >= 0 /\ s > t * t

\* Signed overflow is undefined: the build wraps, or evaluates the sum wide.
VibracaoExcessiva(x, y, z, b) ==
  LET s == SomaQuadrados(x, y, z)
  IN IF s.ovf /\ b.ovf = "wide" THEN TRUE ELSE SqrtGT(s.val, LimiteVibracao)

(***************************************************************************)
(* Output lines                                                            *)
(***************************************************************************)
Line(k, f) == [kind |-> k, f |-> f]
Text(k) == Line(k, <<>>)

AlertaTemperatura == Text("ALERTA: Temperatura elevada!")
AlertaUmidade == Text("ALERTA: Umidade muito alta!")
AlertaLuminosidade == Text("ALERTA: Luminosidade muito baixa!")
AlertaVibracao == Text("ALERTA: Vibracao excessiva detectada!")
ErroDHT == Text("Erro na leitura do DHT22")
Separador == Text("================================")
Banner == Text("--- Leitura dos Sensores ---")

Globals ==
  [temperatura |-> temperatura, umidade |-> umidade, luminosidade |-> luminosidade,
   ax |-> ax, ay |-> ay, az |-> az, gx |-> gx, gy |-> gy, gz |-> gz]

\* Globals are zero-initialised
BootGlobals ==
  [temperatura |-> F(0), umidade |-> F(0), luminosidade |-> F(0),
   ax |-> 0, ay |-> 0, az |-> 0, gx |-> 0, gy |-> 0, gz |-> 0]

\* Mutant of coletarDados: only the field that is NaN is set to 0
coletarDados_PorCampo(g, rd, b) ==
  [g |-> [temperatura |-> IF isnan(rd.temp) THEN F(0) ELSE rd.temp,
          umidade |-> IF isnan(rd.hum) THEN F(0) ELSE rd.hum,
          luminosidade |-> IntToFloat(map(rd.ldr, 0, LDR_IN_MAX, 0, LDR_OUT_MAX)),
          ax |-> FloatVezes1000ParaInt16(rd.a[1], b),
          ay |-> FloatVezes1000ParaInt16(rd.a[2], b),
          az |-> FloatVezes1000ParaInt16(rd.a[3], b),
          gx |-> FloatVezes1000ParaInt16(rd.g[1], b),
          gy |-> FloatVezes1000ParaInt16(rd.g[2], b),
          gz |-> FloatVezes1000ParaInt16(rd.g[3], b)],
   out |-> IF isnan(rd.temp) \/ isnan(rd.hum) THEN <<ErroDHT>> ELSE <<>>]

\* Mutant of coletarDados: on an invalid read umidade keeps its earlier value
coletarDados_Stale(g, rd, b) ==
  LET invalid == isnan(rd.temp) \/ isnan(rd.hum)
  IN [g |-> [temperatura |-> IF invalid THEN F(0) ELSE rd.temp,
             umidade |-> IF invalid THEN g.umidade ELSE rd.hum,
             luminosidade |-> IntToFloat(map(rd.ldr, 0, LDR_IN_MAX, 0, LDR_OUT_MAX)),
             ax |-> FloatVezes1000ParaInt16(rd.a[1], b),
             ay |-> FloatVezes1000ParaInt16(rd.a[2], b),
             az |-> FloatVezes1000ParaInt16(rd.a[3], b),
             gx |-> FloatVezes1000ParaInt16(rd.g[1], b),
             gy |-> FloatVezes1000ParaInt16(rd.g[2], b),
             gz |-> FloatVezes1000ParaInt16(rd.g[3], b)],
      out |-> IF invalid THEN <<ErroDHT>> ELSE <<>>]

(***************************************************************************)
(* coletarDados: g are the globals before the call, rd what the sensors    *)
(* return.  Result: the globals after the call and the lines written.      *)
(***************************************************************************)
coletarDados(g, rd, b) ==
  LET invalid == isnan(rd.temp) \/ isnan(rd.hum)
      valorLDR == rd.ldr
  IN [g |-> [temperatura |-> IF invalid THEN F(0) ELSE rd.temp,
             umidade |-> IF invalid THEN F(0) ELSE rd.hum,
             luminosidade |-> IntToFloat(map(valorLDR, 0, LDR_IN_MAX, 0, LDR_OUT_MAX)),
             ax |-> FloatVezes1000ParaInt16(rd.a[1], b),
             ay |-> FloatVezes1000ParaInt16(rd.a[2], b),
             az |-> FloatVezes1000ParaInt16(rd.a[3], b),
             gx |-> FloatVezes1000ParaInt16(rd.g[1], b),
             gy |-> FloatVezes1000ParaInt16(rd.g[2], b),
             gz |-> FloatVezes1000ParaInt16(rd.g[3], b)],
      out |-> IF invalid THEN <<ErroDHT>> ELSE <<>>]

\* analisarDados: the alert lines, in the order of the four if statements
analisarDados(g, b) ==
  (IF GT(g.temperatura, LimiteTemperatura) THEN <<AlertaTemperatura>> ELSE <<>>)
  \o (IF GT(g.umidade, LimiteUmidade) THEN <<AlertaUmidade>> ELSE <<>>)
  \o (IF LT(g.luminosidade, LimiteLuminosidade) THEN <<AlertaLuminosidade>> ELSE <<>>)
  \o (IF VibracaoExcessiva(g.ax, g.ay, g.az, b) THEN <<AlertaVibracao>> ELSE <<>>)

\* Mutant of exibirDados: analisarDados is called after the closing separator
exibirDados_AlertasDepois(g, timestamp, b) ==
  << Line("csv", <<timestamp, Print2(g.temperatura), Print2(g.umidade),
                  Print2(g.luminosidade), g.ax, g.ay, g.az, g.gx, g.gy, g.gz>>),
     Banner,
     Text("Ambiente:"),
     Line("  Temperatura", <<Print2(g.temperatura)>>),
     Line("  Umidade", <<Print2(g.umidade)>>),
     Line("  Luminosidade", <<Print2(g.luminosidade)>>),
     Text("Vibracao/Movimento (MPU6050):"),
     Line("  Aceleracao (mg)", <<g.ax, g.ay, g.az>>),
     Line("  Giroscopio (mdps)", <<g.gx, g.gy, g.gz>>),
     Separador >>
  \o analisarDados(g, b)

\* exibirDados: the lines written, timestamp = millis() / 1000
exibirDados(g, timestamp, b) ==
  << Line("csv", <<timestamp, Print2(g.temperatura), Print2(g.umidade),
                  Print2(g.luminosidade), g.ax, g.ay, g.az, g.gx, g.gy, g.gz>>),
     Banner,
     Text("Ambiente:"),
     Line("  Temperatura", <<Print2(g.temperatura)>>),
     Line("  Umidade", <<Print2(g.umidade)>>),
     Line("  Luminosidade", <<Print2(g.luminosidade)>>),
     Text("Vibracao/Movimento (MPU6050):"),
     Line("  Aceleracao (mg)", <<g.ax, g.ay, g.az>>),
     Line("  Giroscopio (mdps)", <<g.gx, g.gy, g.gz>>) >>
  \o analisarDados(g, b)
  \o <<Separador>>

\* millis() / 1000 for a clock value in ticks
Segundos(c) == c \div Ticks(MsPorSegundo)

(***************************************************************************)
(* Sensor inputs                                                           *)
(***************************************************************************)
Sample(c, l, m) == [temp |-> c[1], hum |-> c[2], ldr |-> l, a |-> m[1], g |-> m[2]]

\* (temperature, humidity) returned by the DHT22
ClimaNominal == <<F(250), F(500)>>
Clima == { ClimaNominal, <<F(360), F(500)>>, <<F(250), F(850)>>, <<F(360), F(850)>> }
ClimaLimite ==
  { <<NaN, NaN>>, <<NaN, F(500)>>, <<F(250), NaN>>, <<F(350), F(800)>>,
    <<F(351), F(801)>>, <<F(-55), F(0)>> }

\* analogRead of the 12-bit ADC
LDRNominal == 2048
LDR == { LDRNominal, 205 }
LDRLimite == { 0, 409, 410, 4095 }

\* (acceleration, angular rate) returned by the MPU6050, in 1/10000
MovimentoNominal == << <<100, 100, 10000>>, <<0, 0, 0>> >>
Movimento == { MovimentoNominal, << <<25000, 0, 0>>, <<0, 0, 0>> >> }
MovimentoLimite ==
  { << <<20000, 0, 0>>, <<-15, 15, 99>> >>,
    << <<12000, 12000, 12000>>, <<2500000, -2500000, 0>> >>,
    << <<5000, 5000, 5000>>, <<400000, 0, 0>> >>,
    << <<-125, 80004, -80009>>, <<5000000, -5000000, 327670>> >>,
    << <<270000, 270000, 270000>>, <<0, 0, 0>> >>,
    << <<327670, -327680, 327679>>, <<0, 0, 0>> >> }

\* Every sensor at fault at once
Falhas ==
  { Sample(<<NaN, NaN>>, 0, << <<327670, -327680, 327679>>, <<5000000, -5000000, 327670>> >>),
    Sample(<<NaN, F(850)>>, 205, << <<25000, 0, 0>>, <<0, 0, 0>> >>) }

\* Every combination of the four alert conditions, each channel's limits, and
\* the faults together
Reads ==
  { Sample(c, l, m) : c \in Clima, l \in LDR, m \in Movimento }
  \cup { Sample(c, LDRNominal, MovimentoNominal) : c \in ClimaLimite }
  \cup { Sample(ClimaNominal, l, MovimentoNominal) : l \in LDRLimite }
  \cup { Sample(ClimaNominal, LDRNominal, m) : m \in MovimentoLimite }
  \cup Falhas

NominalReads == Sample(ClimaNominal, LDRNominal, MovimentoNominal)

\* (time in coletarDados, time in exibirDados), in ms
CycleDurations == { <<0, 0>>, <<300, 0>>, <<8, 2400>> }
SetupDurations == {0, 8}

(***************************************************************************)
(* Observation of the fires: number of fires; clock-independent times of   *)
(* the latest fire (start: the tempoAtual that fired it, end: return of    *)
(* exibirDados) and of the one before; timestamps of the two latest        *)
(* records and the time at which the latest was taken; time of the latest  *)
(* poll; whether the clock was advanced by the pause alone so far; whether *)
(* the latest cycle got the same reads as the one before.                  *)
(***************************************************************************)
NoHist ==
  [fires |-> 0, start |-> 0, end |-> 0, prevStart |-> 0, prevEnd |-> 0,
   ts |-> 0, prevTs |-> 0, tsAt |-> 0, poll |-> 0, zeroDur |-> TRUE,
   sameReads |-> FALSE]

\* The loop one poll before the last fire that precedes the wrap of millis(),
\* after an uptime in which every read was NominalReads and took no time.
AgedUptime == Wrap - 349
AgedStart == AgedUptime - 475

InitBoot ==
  /\ pc = "setup"
  /\ build \in Builds
  /\ mpuOk = FALSE
  /\ clock = 0 /\ uptime = 0 /\ ultimaLeitura = 0
  /\ temperatura = F(0) /\ umidade = F(0) /\ luminosidade = F(0)
  /\ ax = 0 /\ ay = 0 /\ az = 0 /\ gx = 0 /\ gy = 0 /\ gz = 0
  /\ serial = <<>> /\ fired = FALSE
  /\ reads = NominalReads
  /\ hist = NoHist

InitAged ==
  /\ pc = "loop"
  /\ build \in Builds
  /\ mpuOk = TRUE
  /\ clock = AgedUptime /\ uptime = AgedUptime /\ ultimaLeitura = AgedStart
  /\ LET g == coletarDados(BootGlobals, NominalReads, build).g
     IN /\ temperatura = g.temperatura /\ umidade = g.umidade
        /\ luminosidade = g.luminosidade
        /\ ax = g.ax /\ ay = g.ay /\ az = g.az
        /\ gx = g.gx /\ gy = g.gy /\ gz = g.gz
  /\ serial = <<>> /\ fired = FALSE
  /\ reads = NominalReads
  /\ hist = [fires |-> AgedStart \div Ticks(intervaloLeitura),
             start |-> AgedStart, end |-> AgedStart,
             prevStart |-> AgedStart - Ticks(intervaloLeitura),
             prevEnd |-> AgedStart - Ticks(intervaloLeitura),
             ts |-> Segundos(AgedStart),
             prevTs |-> Segundos(AgedStart - Ticks(intervaloLeitura)),
             tsAt |-> AgedStart, poll |-> AgedUptime - Ticks(pausa),
             zeroDur |-> TRUE, sameReads |-> TRUE]

Init == InitBoot \/ InitAged

\* time explored since the initial state
Ran == IF uptime >= AgedUptime THEN uptime - AgedUptime ELSE uptime

(***************************************************************************)
(* setup()                                                                 *)
(***************************************************************************)
Setup ==
  /\ pc = "setup"
  /\ pc' = "loop"
  /\ \E ok \in BOOLEAN, d \in SetupDurations :
       /\ mpuOk' = ok
       /\ serial' = << Text("=== Sistema de Monitoramento Industrial ==="),
                       Text("Inicializando sensores..."),
                       Text("DHT22 inicializado"),
                       IF ok THEN Text("MPU6050 inicializado com sucesso")
                             ELSE Text("Erro ao inicializar MPU6050"),
                       Text("Sistema pronto para coleta de dados!"),
                       Text("Timestamp,Temperatura(C),Umidade(%),Luminosidade,Accel_X,Accel_Y,Accel_Z,Gyro_X,Gyro_Y,Gyro_Z") >>
       /\ clock' = (clock + Ticks(d)) % Wrap
       /\ uptime' = uptime + Ticks(d)
       /\ hist' = [hist EXCEPT !.zeroDur = (d = 0)]
  /\ UNCHANGED <<build, ultimaLeitura, temperatura, umidade, luminosidade,
                 ax, ay, az, gx, gy, gz, fired, reads>>

(***************************************************************************)
(* loop()                                                                  *)
(***************************************************************************)
\* Mutant of Vencido: > instead of >=
Vencido_Estrito(tempoAtual, ultima) == Sub32(tempoAtual, ultima) > Ticks(intervaloLeitura)

\* if (tempoAtual - ultimaLeitura >= intervaloLeitura)
Vencido(tempoAtual, ultima) == Sub32(tempoAtual, ultima) >= Ticks(intervaloLeitura)

\* Mutant of NovaUltimaLeitura: ultimaLeitura = millis() after the cycle
NovaUltimaLeitura_Fim(tempoAtual, fim) == fim

\* ultimaLeitura = tempoAtual; fim is millis() when exibirDados has returned
NovaUltimaLeitura(tempoAtual, fim) == tempoAtual

\* The interval has elapsed: coletarDados, exibirDados, ultimaLeitura =
\* tempoAtual, delay(100).  R: what the sensors may return; D: the time the
\* two calls may take.
Fire(R, D) ==
  /\ pc = "loop"
  /\ Ran < HorizonPausas * Ticks(pausa)
  /\ LET tempoAtual == clock
     IN /\ Vencido(tempoAtual, ultimaLeitura)
        /\ \E rd \in R, dur \in D :
             LET col == coletarDados(Globals, rd, build)
                 dc == Ticks(dur[1])
                 de == Ticks(dur[2])
                 timestamp == Segundos((clock + dc) % Wrap)
                 total == dc + de + Ticks(pausa)
             IN /\ temperatura' = col.g.temperatura
                /\ umidade' = col.g.umidade
                /\ luminosidade' = col.g.luminosidade
                /\ ax' = col.g.ax /\ ay' = col.g.ay /\ az' = col.g.az
                /\ gx' = col.g.gx /\ gy' = col.g.gy /\ gz' = col.g.gz
                /\ serial' = col.out \o exibirDados(col.g, timestamp, build)
                /\ ultimaLeitura' = NovaUltimaLeitura(tempoAtual, (clock + dc + de) % Wrap)
                /\ clock' = (clock + total) % Wrap
                /\ uptime' = uptime + total
                /\ reads' = rd
                /\ hist' = [fires |-> hist.fires + 1,
                            start |-> uptime, end |-> uptime + dc + de,
                            prevStart |-> hist.start, prevEnd |-> hist.end,
                            ts |-> timestamp, prevTs |-> hist.ts,
                            tsAt |-> uptime + dc, poll |-> uptime,
                            zeroDur |-> hist.zeroDur /\ dc = 0 /\ de = 0,
                            sameReads |-> hist.fires > 0 /\ rd = reads]
  /\ fired' = TRUE
  /\ UNCHANGED <<pc, build, mpuOk>>

LoopFire == Fire(Reads, CycleDurations)

\* The interval has not elapsed: delay(100)
LoopIdle ==
  /\ pc = "loop"
  /\ Ran < HorizonPausas * Ticks(pausa)
  /\ LET tempoAtual == clock
     IN ~Vencido(tempoAtual, ultimaLeitura)
  /\ clock' = (clock + Ticks(pausa)) % Wrap
  /\ uptime' = uptime + Ticks(pausa)
  /\ serial' = <<>>
  /\ fired' = FALSE
  /\ hist' = [hist EXCEPT !.poll = uptime]
  /\ UNCHANGED <<pc, build, mpuOk, ultimaLeitura, temperatura, umidade,
                 luminosidade, ax, ay, az, gx, gy, gz, reads>>

Next == Setup \/ LoopFire \/ LoopIdle

Spec == Init /\ [][Next]_vars

(***************************************************************************)
(* The light channel alone: every value of the 12-bit ADC, the other       *)
(* channels nominal, one build.                                            *)
(***************************************************************************)
ReadsLDR == { Sample(ClimaNominal, l, MovimentoNominal) : l \in 0..LDR_IN_MAX }

InitLDR == InitBoot /\ build = [conv |-> "wrap", ovf |-> "wrap"]

LoopFireLDR == Fire(ReadsLDR, { <<0, 0>> })

NextLDR == Setup \/ LoopFireLDR \/ LoopIdle

SpecLDR == InitLDR /\ [][NextLDR]_vars


(***************************************************************************)
(* Reading the output of a cycle                                           *)
(***************************************************************************)
Interval == Ticks(intervaloLeitura)
Max(a, b) == IF a >= b THEN a ELSE b

AlertKinds == { AlertaTemperatura.kind, AlertaUmidade.kind,
                AlertaLuminosidade.kind, AlertaVibracao.kind }

\* the kinds of the lines written, in order
Kinds(s) == [i \in 1..Len(s) |-> s[i].kind]

\* the lines of s of a kind in K, in order
RECURSIVE Only(_, _)
Only(s, K) ==
  IF s = <<>> THEN <<>>
  ELSE (IF Head(s).kind \in K THEN <<Head(s).kind>> ELSE <<>>) \o Only(Tail(s), K)

Count(s, k) == Cardinality({ i \in 1..Len(s) : s[i].kind = k })

\* the cycle's output without the diagnostic of the climate read
Report == IF serial # <<>> /\ serial[1].kind = ErroDHT.kind THEN Tail(serial) ELSE serial

\* the record of the cycle
Record == Report[1].f

Zero00 == [neg |-> FALSE, int |-> 0, frac |-> 0]

ClimaInvalido == reads.temp.nan \/ reads.hum.nan

\* two fires have happened since the initial state
TwoFiresSeen == fired /\ hist.prevStart >= AgedStart + Interval

\* |(x, y, z)| > LimiteVibracao in exact arithmetic
ExactExceeds(x, y, z) ==
  LET t == LimiteVibracao * LimiteVibracao
  IN x * x > t \/ y * y > t \/ z * z > t \/ x * x + y * y + z * z > t

\* the alerts whose rule holds of the stored sample, in the fixed order
ExpectedAlerts ==
  (IF ~temperatura.nan /\ temperatura.v > 350 THEN <<AlertaTemperatura.kind>> ELSE <<>>)
  \o (IF ~umidade.nan /\ umidade.v > 800 THEN <<AlertaUmidade.kind>> ELSE <<>>)
  \o (IF ~luminosidade.nan /\ luminosidade.v < 100 THEN <<AlertaLuminosidade.kind>> ELSE <<>>)
  \o (IF ExactExceeds(ax, ay, az) THEN <<AlertaVibracao.kind>> ELSE <<>>)

(***************************************************************************)
(* C1, as stated: at any time the number of cycles fired is exactly        *)
(* floor(elapsed / intervaloLeitura), and two consecutive fires are at     *)
(* least intervaloLeitura apart.                                           *)
(***************************************************************************)
C1_ExactlyFloorElapsed ==
  pc = "loop" =>
    /\ hist.fires = uptime \div Interval
    /\ (hist.fires >= 2 => hist.start - hist.prevStart >= Interval)

(***************************************************************************)
(* C1, amended: the number of cycles fired never exceeds                   *)
(* floor(elapsed / intervaloLeitura); while the clock is advanced by the   *)
(* pause alone it is exactly floor(t / intervaloLeitura) for t the clock   *)
(* value read by the latest loop() call; two consecutive fires are at      *)
(* least intervaloLeitura apart.                                           *)
(***************************************************************************)
C1_Cadence ==
  pc = "loop" =>
    /\ hist.fires <= uptime \div Interval
    /\ (hist.zeroDur => hist.fires = hist.poll \div Interval)
    /\ (hist.fires >= 2 => hist.start - hist.prevStart >= Interval)

\* two fires of a run whose clock is advanced by the pause alone, the second
\* after the wrap of millis()
C1_Witness == TwoFiresSeen /\ hist.zeroDur /\ hist.start > Wrap

(***************************************************************************)
(* C2: in a cycle whose climate read is invalid, the diagnostic line is    *)
(* written first, then the record with temperature and humidity 0.00, then *)
(* the whole block; in a cycle whose read is valid both fields are the     *)
(* values read and no diagnostic is written.                               *)
(***************************************************************************)
C2_DegradeToZero ==
  fired =>
    /\ ClimaInvalido =>
         /\ serial[1].kind = ErroDHT.kind
         /\ serial[2].kind = "csv"
         /\ serial[2].f[2] = Zero00 /\ serial[2].f[3] = Zero00
         /\ temperatura = F(0) /\ umidade = F(0)
         /\ serial[3] = Banner
         /\ serial[Len(serial)] = Separador
         /\ Len(serial) >= 11
    /\ ~ClimaInvalido =>
         /\ Count(serial, ErroDHT.kind) = 0
         /\ serial[1].kind = "csv"
         /\ temperatura = reads.temp /\ umidade = reads.hum
         /\ serial[1].f[2] = [neg |-> reads.temp.v < 0,
                              int |-> (IF reads.temp.v < 0 THEN -reads.temp.v ELSE reads.temp.v) \div 10,
                              frac |-> 10 * ((IF reads.temp.v < 0 THEN -reads.temp.v ELSE reads.temp.v) % 10)]
         /\ serial[1].f[3] = [neg |-> FALSE, int |-> reads.hum.v \div 10,
                              frac |-> 10 * (reads.hum.v % 10)]

\* a cycle in which the temperature is NaN and the humidity is not
C2_Witness == fired /\ reads.temp.nan /\ ~reads.hum.nan /\ reads.hum.v # 0

(***************************************************************************)
(* C3, as stated: the alert lines of a cycle are exactly the alerts whose  *)
(* rule holds of the sample (temperature > 35.0, humidity > 80.0,          *)
(* light < 10.0, |acceleration| > 2000), in the fixed order.               *)
(***************************************************************************)
C3_AlertSequence == fired => Only(serial, AlertKinds) = ExpectedAlerts

(***************************************************************************)
(* C4, as stated: the vibration alert is written if and only if            *)
(* ax^2 + ay^2 + az^2 > 2000^2 in exact arithmetic, and the sum of squares *)
(* never overflows the 32-bit signed int it is computed in.                *)
(***************************************************************************)
C4_VibrationExact ==
  fired =>
    /\ ~SomaQuadrados(ax, ay, az).ovf
    /\ (Count(serial, AlertaVibracao.kind) = 1) = ExactExceeds(ax, ay, az)

(***************************************************************************)
(* C5: a cycle writes, in this order, one record of 10 fields, the banner, *)
(* the environment section, the motion section, the alert lines and the    *)
(* closing separator, and nothing else but the diagnostic of the climate   *)
(* read before the record; no record and no alert line is written outside *)
(* a cycle.                                                                *)
(***************************************************************************)
C5_OneReportPerCycle ==
  /\ fired =>
       LET n == Len(Report)
       IN /\ n >= 10
          /\ Report[1].kind = "csv" /\ Len(Record) = 10
          /\ <<Record[5], Record[6], Record[7]>> = <<ax, ay, az>>
          /\ <<Record[8], Record[9], Record[10]>> = <<gx, gy, gz>>
          /\ Record[1] = hist.ts
          /\ [i \in 1..8 |-> Report[i + 1].kind] =
               << "--- Leitura dos Sensores ---", "Ambiente:", "  Temperatura",
                  "  Umidade", "  Luminosidade", "Vibracao/Movimento (MPU6050):",
                  "  Aceleracao (mg)", "  Giroscopio (mdps)" >>
          /\ \A i \in 10..(n - 1) : Report[i].kind \in AlertKinds
          /\ Report[n] = Separador
          /\ Count(serial, "csv") = 1
          /\ Count(serial, Banner.kind) = 1
          /\ Count(serial, Separador.kind) = 1
          /\ Len(serial) - n = (IF ClimaInvalido THEN 1 ELSE 0)
  /\ ~fired => (Count(serial, "csv") = 0 /\ Only(serial, AlertKinds) = <<>>)

\* a cycle with an invalid climate read, an alert and the MPU6050 not initialised
C5_Witness ==
  fired /\ ~mpuOk /\ ClimaInvalido /\ Len(Report) > 10

(***************************************************************************)
(* C6, as stated: for a motion read within +-8 g and +-500 deg/s, each of  *)
(* the six stored integers is the reading times 1000 truncated toward      *)
(* zero.                                                                   *)
(***************************************************************************)
C6_MilliUnits ==
  (fired /\ \A i \in 1..3 : reads.a[i] \in -80000..80000 /\ reads.g[i] \in -5000000..5000000)
    => <<ax, ay, az, gx, gy, gz>> =
         << CDiv(reads.a[1], 10), CDiv(reads.a[2], 10), CDiv(reads.a[3], 10),
            CDiv(reads.g[1], 10), CDiv(reads.g[2], 10), CDiv(reads.g[3], 10) >>

(***************************************************************************)
(* C7: for every raw value r in 0..4095, luminosidade is                   *)
(* (r - 0) * (100 - 0) / (4095 - 0) + 0 with truncating division; it lies  *)
(* in 0..100, is 0 for r = 0 and 100 for r = 4095, and is not larger than  *)
(* the value for r + 1 (so it is monotonic).                               *)
(***************************************************************************)
C7_LightRescale ==
  fired =>
    LET r == reads.ldr
        next == coletarDados(Globals, [reads EXCEPT !.ldr = r + 1], build).g.luminosidade
    IN /\ luminosidade = [nan |-> FALSE, v |-> 10 * ((r * 100) \div 4095)]
       /\ luminosidade.v >= 0 /\ luminosidade.v <= 1000
       /\ (r = 0 => luminosidade.v = 0)
       /\ (r = 4095 => luminosidade.v = 1000)
       /\ (r < 4095 => luminosidade.v <= next.v)
       /\ Record[4] = [neg |-> FALSE, int |-> (r * 100) \div 4095, frac |-> 0]

\* a cycle that read the largest raw value
C7_Witness == fired /\ reads.ldr = 4095 /\ luminosidade.v = 1000

(***************************************************************************)
(* C8, as stated: the timestamp of a record is the time since boot in      *)
(* whole seconds, and it never decreases from one record to the next.      *)
(***************************************************************************)
C8_TimestampMonotonic ==
  /\ hist.fires >= 1 => hist.ts = hist.tsAt \div Ticks(MsPorSegundo)
  /\ hist.fires >= 2 => hist.ts >= hist.prevTs

(***************************************************************************)
(* C9, as stated: a cycle fires no sooner than intervaloLeitura after the  *)
(* previous cycle completed, and at most one pause after that point.       *)
(***************************************************************************)
C9_FromEndOfPreviousFire ==
  (fired /\ hist.fires >= 2) =>
    /\ hist.start - hist.prevEnd >= Interval
    /\ hist.start <= hist.prevEnd + Interval + Ticks(pausa)

(***************************************************************************)
(* C9, amended: a cycle fires no sooner than intervaloLeitura after the    *)
(* previous cycle started (the tempoAtual of the loop() call that fired    *)
(* it), and at most one pause after the later of that point and the        *)
(* completion of the previous cycle.                                       *)
(***************************************************************************)
C9_FromStartOfPreviousFire ==
  (fired /\ hist.fires >= 2) =>
    /\ hist.start - hist.prevStart >= Interval
    /\ hist.start <= Max(hist.prevStart + Interval, hist.prevEnd) + Ticks(pausa)

\* a second fire less than intervaloLeitura after the first one completed
C9_Witness == TwoFiresSeen /\ hist.start - hist.prevEnd < Interval

(***************************************************************************)
(* C10: the stored readings, the sensor fields of the record and the alert *)
(* lines of a cycle are those of a first cycle after boot that gets the    *)
(* same reads: nothing of an earlier cycle reaches them.                   *)
(***************************************************************************)
C10_Stateless ==
  fired =>
    LET first == coletarDados(BootGlobals, reads, build)
        out == first.out \o exibirDados(first.g, hist.ts, build)
    IN /\ Globals = first.g
       /\ Kinds(serial) = Kinds(out)
       /\ \A i \in 1..Len(serial) : serial[i].f = out[i].f

\* a cycle that gets the reads of the cycle before it and alerts again
C10_Witness ==
  TwoFiresSeen /\ hist.sameReads /\ Only(serial, AlertKinds) # <<>>

====
